---- MODULE Spec2Model ----
(***************************************************************************)
(* Trial-run workflow of the CARLA clients of this repository.             *)
(*                                                                         *)
(*  - ReseachCode/manual_control_steeringwheel_Research_Base.py:           *)
(*    class TrialManager, driven by game_loop (one frame per iteration).   *)
(*  - NSTICampCode/carlatest with time trial copy.py:                      *)
(*    class CarlaSimulator, driven by run() and by the camera callback     *)
(*    process_image.                                                       *)
(*                                                                         *)
(* A behaviour is a run of one of the two clients (variable prog); the      *)
(* research client runs either with the keys of the trial ("research") or  *)
(* with the events of the transmission ("control") as its input.           *)
(* Time is the integer reading of time.time(); one unit is TimeUnit-th of  *)
(* a second.  Speeds are the mph readings of the vehicle, an input.        *)
(***************************************************************************)
EXTENDS Integers, Sequences, FiniteSets, TLC

VARIABLES
    prog,           \* which client runs, and with which inputs
    now,            \* reading of time.time()
    pc,             \* position of the client's main loop
    keys,           \* pygame.key.get_pressed() as read in this iteration
    trial_manager,  \* the TrialManager object (research client)
    sim,            \* the CarlaSimulator object (nsti client)
    images,         \* camera images delivered since the loop iteration began
    samples,        \* history: <<speed, time>> of the samples of the current run
    controller,     \* the DualControl object (research client)
    key_mapping,    \* [KeyMapping] of the configuration, as load_config returns it
    events,         \* the events parse_events has just handled (its local list)
    axis_mapping,   \* [AxisMapping] of the configuration, as load_mapping returns it
    joystick,       \* get_numaxes() of the joystick or gamepad, None without one
    jsInputs,       \* what get_axis reported to the handler that has just run
    applied,        \* the control vector last handed to apply_control
    sensors         \* the CollisionSensor history and the CameraManager surface

vars == <<prog, now, pc, keys, trial_manager, sim, images, samples,
          controller, key_mapping, events, axis_mapping, joystick, jsInputs, applied,
          sensors>>

---------------------------------------------------------------------------
(* Bounds of the model *)

\* last clock reading at which a loop iteration of the research client starts
MaxTime == 6
\* last clock reading at which a loop iteration of the nsti client starts
MaxTimeSim == 13
\* camera images delivered per loop iteration of the nsti client
MaxImages == 1
\* longest time between two loop iterations
MaxDt == 2
\* violation intervals opened, and closed intervals kept, by the nsti client
MaxViolations == 1
\* events pygame.event.get() returns in one frame
MaxEvents == 2
\* highest gear the shift-up key is pressed to
MaxGear == 3
\* collision events the collision sensor delivers
MaxCollisions == 4002
\* images the camera delivers to the CameraManager
MaxCameraFrames == 2

(* Program constants *)

\* Python None for a time stamp (time stamps are >= 0)
None == -1
\* float('inf')
Inf == 1000
\* trial_settings['speed_limit'] default, TrialManager.max_speed
speed_limit == 45
\* max_speed_limit passed by main() of the nsti client
max_speed_limit == 40
\* countdown_duration passed by main() of the nsti client, in seconds
countdown_duration == 5

\* throttle_sensitivity and steering_sensitivity of main(), in thousandths
throttle_sensitivity == 700
steering_sensitivity == 700

\* clock units per second
TimeUnit == 2

\* entries CollisionSensor._on_collision keeps in self.history
history_limit == 4000

\* speed readings offered by the vehicle of the research client (mph)
Speeds == {30, 45, 50, 60}

\* speed readings offered by the vehicle of the nsti client (mph)
SimSpeeds == {30, 40, 50}

\* the keys keyboard_control looks at for the trial run
SimKeys == {"K_1", "K_SPACE", "K_ESCAPE"}

\* the keys game_loop looks at
TrialKeys == {"K_KP1", "K_RETURN", "K_SPACE"}

---------------------------------------------------------------------------
(* Arithmetic helpers *)

Max(a, b) == IF a >= b THEN a ELSE b
Min(a, b) == IF a <= b THEN a ELSE b

RECURSIVE GCD(_, _)
GCD(a, b) == IF b = 0 THEN a ELSE GCD(b, a % b)

\* Python's true division n / d of non-negative integers, as a reduced fraction;
\* the denominator 0 stands for ZeroDivisionError
Div(n, d) ==
    LET g == GCD(n, d)
    IN  IF d = 0 THEN <<1, 0>>
        ELSE IF n = 0 THEN <<0, 1>>
        ELSE <<n \div g, d \div g>>

RECURSIVE SumDurations(_)
SumDurations(s) == IF s = <<>> THEN 0 ELSE s[1][1] + SumDurations(Tail(s))

RECURSIVE SumSpeeds(_)
SumSpeeds(s) == IF s = <<>> THEN 0 ELSE s[1][2] + SumSpeeds(Tail(s))

\* sum(s) of a list of numbers
RECURSIVE Sum(_)
Sum(s) == IF s = <<>> THEN 0 ELSE s[1] + Sum(Tail(s))

---------------------------------------------------------------------------
(* TrialManager *)

TrialManager_init ==
    [ trial_active         |-> FALSE,
      start_time           |-> None,
      end_time             |-> None,
      violation_start      |-> None,
      violation_durations  |-> <<>>,
      violation_count      |-> 0,
      max_speed            |-> speed_limit,
      trial_results        |-> <<>>,
      display_results      |-> FALSE,
      start_screen         |-> FALSE,
      current_speed        |-> 0,
      speeding_warning     |-> FALSE,
      max_speed_during_run |-> 0,
      min_speed_during_run |-> Inf ]

\* mutant: an aborted run is presented as a finished one
start_trial_shows_results(self) ==
    [self EXCEPT !.start_screen = TRUE,
                 !.trial_active = FALSE,
                 !.display_results = self.trial_active \/ self.display_results]

start_trial(self) ==
    [self EXCEPT !.start_screen = TRUE,
                 !.trial_active = FALSE]

\* mutant: a new run keeps the maximum and minimum speed of the previous one
initiate_trial_keeps_extremes(self, t) ==
    [self EXCEPT !.trial_active = TRUE,
                 !.start_time = t,
                 !.violation_start = None,
                 !.violation_durations = <<>>,
                 !.violation_count = 0,
                 !.display_results = FALSE,
                 !.start_screen = FALSE,
                 !.speeding_warning = FALSE]

initiate_trial(self, t) ==
    [self EXCEPT !.trial_active = TRUE,
                 !.start_time = t,
                 !.violation_start = None,
                 !.violation_durations = <<>>,
                 !.violation_count = 0,
                 !.display_results = FALSE,
                 !.start_screen = FALSE,
                 !.speeding_warning = FALSE,
                 !.max_speed_during_run = 0,
                 !.min_speed_during_run = Inf]

\* mutant: the sum of the durations is divided by the violation count
calculate_results_by_count(self) ==
    LET n == Len(self.violation_durations) IN
    [self EXCEPT !.trial_results =
        [ trial_duration         |-> self.end_time - self.start_time,
          avg_speed              |-> IF n > 0 THEN Div(SumSpeeds(self.violation_durations), n)
                                              ELSE <<0, 1>>,
          avg_violation_duration |-> IF n > 0 THEN Div(SumDurations(self.violation_durations),
                                                       self.violation_count)
                                              ELSE <<0, 1>>,
          violation_count        |-> self.violation_count ]]

\* mutant: the averages are divided by the length of the list even when it is empty
calculate_results_unguarded(self) ==
    LET n == Len(self.violation_durations) IN
    [self EXCEPT !.trial_results =
        [ trial_duration         |-> self.end_time - self.start_time,
          avg_speed              |-> Div(SumSpeeds(self.violation_durations), n),
          avg_violation_duration |-> Div(SumDurations(self.violation_durations), n),
          violation_count        |-> self.violation_count ]]

calculate_results(self) ==
    LET n == Len(self.violation_durations) IN
    [self EXCEPT !.trial_results =
        [ trial_duration         |-> self.end_time - self.start_time,
          avg_speed              |-> IF n > 0 THEN Div(SumSpeeds(self.violation_durations), n)
                                              ELSE <<0, 1>>,
          avg_violation_duration |-> IF n > 0 THEN Div(SumDurations(self.violation_durations), n)
                                              ELSE <<0, 1>>,
          violation_count        |-> self.violation_count ]]

end_trial(self, t) ==
    LET ended == [self EXCEPT !.trial_active = FALSE, !.end_time = t]
    IN  [calculate_results(ended) EXCEPT !.display_results = TRUE]

\* mutant: the closing sample appends the interval but leaves it open
track_speed_keeps_open(self, speed, t) ==
    LET s0 == [self EXCEPT !.current_speed = speed] IN
    IF ~self.trial_active THEN s0
    ELSE
      LET s1 == [s0 EXCEPT !.max_speed_during_run = Max(self.max_speed_during_run, speed),
                           !.min_speed_during_run = Min(self.min_speed_during_run, speed)]
      IN  IF speed > self.max_speed
          THEN IF self.violation_start = None
               THEN [s1 EXCEPT !.violation_start = t,
                               !.violation_count = self.violation_count + 1,
                               !.speeding_warning = TRUE]
               ELSE [s1 EXCEPT !.speeding_warning = TRUE]
          ELSE IF self.violation_start # None
               THEN [s1 EXCEPT !.violation_durations =
                                   Append(self.violation_durations,
                                          <<t - self.violation_start, speed>>),
                               !.speeding_warning = FALSE]
               ELSE [s1 EXCEPT !.speeding_warning = FALSE]

\* mutant: the samples are accounted whether or not the trial is active
track_speed_unguarded(self, speed, t) ==
    LET s0 == [self EXCEPT !.current_speed = speed]
        s1 == [s0 EXCEPT !.max_speed_during_run = Max(self.max_speed_during_run, speed),
                         !.min_speed_during_run = Min(self.min_speed_during_run, speed)]
    IN  IF speed > self.max_speed
        THEN IF self.violation_start = None
             THEN [s1 EXCEPT !.violation_start = t,
                             !.violation_count = self.violation_count + 1,
                             !.speeding_warning = TRUE]
             ELSE [s1 EXCEPT !.speeding_warning = TRUE]
        ELSE IF self.violation_start # None
             THEN [s1 EXCEPT !.violation_durations =
                                 Append(self.violation_durations,
                                        <<t - self.violation_start, speed>>),
                             !.violation_start = None,
                             !.speeding_warning = FALSE]
             ELSE [s1 EXCEPT !.speeding_warning = FALSE]

\* mutant: a sample equal to the limit counts as a violation
track_speed_at_limit(self, speed, t) ==
    LET s0 == [self EXCEPT !.current_speed = speed] IN
    IF ~self.trial_active THEN s0
    ELSE
      LET s1 == [s0 EXCEPT !.max_speed_during_run = Max(self.max_speed_during_run, speed),
                           !.min_speed_during_run = Min(self.min_speed_during_run, speed)]
      IN  IF speed >= self.max_speed
          THEN IF self.violation_start = None
               THEN [s1 EXCEPT !.violation_start = t,
                               !.violation_count = self.violation_count + 1,
                               !.speeding_warning = TRUE]
               ELSE [s1 EXCEPT !.speeding_warning = TRUE]
          ELSE IF self.violation_start # None
               THEN [s1 EXCEPT !.violation_durations =
                                   Append(self.violation_durations,
                                          <<t - self.violation_start, speed>>),
                               !.violation_start = None,
                               !.speeding_warning = FALSE]
               ELSE [s1 EXCEPT !.speeding_warning = FALSE]

\* mutant: every sample above the limit is counted as a violation
track_speed_counts_samples(self, speed, t) ==
    LET s0 == [self EXCEPT !.current_speed = speed] IN
    IF ~self.trial_active THEN s0
    ELSE
      LET s1 == [s0 EXCEPT !.max_speed_during_run = Max(self.max_speed_during_run, speed),
                           !.min_speed_during_run = Min(self.min_speed_during_run, speed)]
      IN  IF speed > self.max_speed
          THEN IF self.violation_start = None
               THEN [s1 EXCEPT !.violation_start = t,
                               !.violation_count = self.violation_count + 1,
                               !.speeding_warning = TRUE]
               ELSE [s1 EXCEPT !.violation_count = self.violation_count + 1,
                               !.speeding_warning = TRUE]
          ELSE IF self.violation_start # None
               THEN [s1 EXCEPT !.violation_durations =
                                   Append(self.violation_durations,
                                          <<t - self.violation_start, speed>>),
                               !.violation_start = None,
                               !.speeding_warning = FALSE]
               ELSE [s1 EXCEPT !.speeding_warning = FALSE]

track_speed(self, speed, t) ==
    LET s0 == [self EXCEPT !.current_speed = speed] IN
    IF ~self.trial_active THEN s0
    ELSE
      LET s1 == [s0 EXCEPT !.max_speed_during_run = Max(self.max_speed_during_run, speed),
                           !.min_speed_during_run = Min(self.min_speed_during_run, speed)]
      IN  IF speed > self.max_speed
          THEN IF self.violation_start = None
               THEN [s1 EXCEPT !.violation_start = t,
                               !.violation_count = self.violation_count + 1,
                               !.speeding_warning = TRUE]
               ELSE [s1 EXCEPT !.speeding_warning = TRUE]
          ELSE IF self.violation_start # None
               THEN [s1 EXCEPT !.violation_durations =
                                   Append(self.violation_durations,
                                          <<t - self.violation_start, speed>>),
                               !.violation_start = None,
                               !.speeding_warning = FALSE]
               ELSE [s1 EXCEPT !.speeding_warning = FALSE]

---------------------------------------------------------------------------
(* DualControl (research client): transmission, gear and the control vector. *)
(* throttle, steer and brake are in thousandths.                             *)

\* the keys whose KEYUP events act on the transmission, and the quit shortcut
ControlKeys == {"K_q", "K_m", "K_COMMA", "K_PERIOD", "K_p", "K_x", "K_ESCAPE"}

\* the joystick buttons bound by the configuration
ControlButtons == {4, 5, 6, 7}

\* the axis_mapping load_config starts from, [AxisMapping] being absent
default_axis_mapping ==
    [ steering |-> None, throttle |-> None, brake |-> None,
      reverse |-> None, handbrake |-> None,
      steering_damping |-> 500, throttle_damping |-> 1000, brake_damping |-> 1000 ]

\* the joy_shifter_* options of [AxisMapping]
ShifterBindings == [ shifter_drive |-> 5, shifter_neutral |-> 6, shifter_reverse |-> 7 ]

\* the joy_steering, joy_throttle and joy_brake options of [AxisMapping]
WheelBindings == [ steering |-> 0, throttle |-> 1, brake |-> 2 ]

\* [AxisMapping] binding the reverse button, the shifter and the wheel
FullAxisMapping ==
    [reverse |-> 4] @@ ShifterBindings @@ WheelBindings @@ default_axis_mapping

\* [KeyMapping] with its four key_* options, key_reverse being r
FullKeyMapping(r) ==
    [ reverse |-> r, handbrake |-> "b", hide_hud |-> "i", toggle_headlights |-> "n" ]

\* the configurations of key_reverse considered
KeyMappings == { FullKeyMapping("q"), FullKeyMapping("x") }

\* getattr(pygame, f'K_{name}', None)
PygameKey(name) == "K_" \o name

KeyUp(k)     == [type |-> "KEYUP", key |-> k, button |-> None]
JoyButton(b) == [type |-> "JOYBUTTONDOWN", key |-> "", button |-> b]
QuitEvent    == [type |-> "QUIT", key |-> "", button |-> None]

\* the events pygame.event.get() can return
ControlEvents ==
    {KeyUp(k) : k \in ControlKeys} \cup {JoyButton(b) : b \in ControlButtons} \cup {QuitEvent}

\* carla.VehicleControl()
VehicleControl ==
    [ throttle |-> 0, steer |-> 0, brake |-> 0, hand_brake |-> FALSE,
      reverse |-> FALSE, manual_gear_shift |-> FALSE, gear |-> 0 ]

\* raised is the exception that left a method of the object, "" for none
DualControl_init ==
    [ autopilot_enabled |-> FALSE,
      control           |-> VehicleControl,
      transmission_mode |-> "automatic",
      shifter_mode      |-> FALSE,
      neutral_mode      |-> FALSE,
      steer_cache       |-> 0,
      raised            |-> "" ]

\* an exception e leaves the method
Raise(self, e) == [self EXCEPT !.raised = e]

\* self._control.gear = 1 if self._control.reverse else -1
toggle_reverse(self) ==
    [self EXCEPT !.control.gear = IF self.control.reverse THEN 1 ELSE -1]

\* the branches of _handle_joystick_button on the bindings every axis_mapping
\* has; hide_hud and toggle_headlights are left unbound and change no state
handle_joystick_button_bound(self, button) ==
    IF axis_mapping.reverse # None /\ button = axis_mapping.reverse
    THEN toggle_reverse(self)
    ELSE [self EXCEPT !.control.hand_brake = ~self.control.hand_brake]

\* whether one of those branches takes the button
IsBoundButton(button) ==
    \/ axis_mapping.reverse # None /\ button = axis_mapping.reverse
    \/ axis_mapping.handbrake # None /\ button = axis_mapping.handbrake

\* mutant: the shifter buttons act in every transmission mode
handle_joystick_button_any_mode(self, button) ==
    IF IsBoundButton(button) THEN handle_joystick_button_bound(self, button)
    ELSE IF "shifter_drive" \notin DOMAIN axis_mapping THEN Raise(self, "KeyError")
    ELSE IF axis_mapping.shifter_drive # None /\ button = axis_mapping.shifter_drive
    THEN [self EXCEPT !.neutral_mode = FALSE, !.control.gear = 1]
    ELSE IF "shifter_neutral" \notin DOMAIN axis_mapping THEN Raise(self, "KeyError")
    ELSE IF axis_mapping.shifter_neutral # None /\ button = axis_mapping.shifter_neutral
    THEN [self EXCEPT !.neutral_mode = TRUE, !.control.gear = 0]
    ELSE IF "shifter_reverse" \notin DOMAIN axis_mapping THEN Raise(self, "KeyError")
    ELSE IF axis_mapping.shifter_reverse # None /\ button = axis_mapping.shifter_reverse
    THEN [self EXCEPT !.neutral_mode = FALSE, !.control.gear = -1]
    ELSE self

\* a subscript of axis_mapping is evaluated only after self._shifter_mode
handle_joystick_button(self, button) ==
    IF IsBoundButton(button) THEN handle_joystick_button_bound(self, button)
    ELSE IF ~self.shifter_mode THEN self
    ELSE IF "shifter_drive" \notin DOMAIN axis_mapping THEN Raise(self, "KeyError")
    ELSE IF axis_mapping.shifter_drive # None /\ button = axis_mapping.shifter_drive
    THEN [self EXCEPT !.neutral_mode = FALSE, !.control.gear = 1]
    ELSE IF "shifter_neutral" \notin DOMAIN axis_mapping THEN Raise(self, "KeyError")
    ELSE IF axis_mapping.shifter_neutral # None /\ button = axis_mapping.shifter_neutral
    THEN [self EXCEPT !.neutral_mode = TRUE, !.control.gear = 0]
    ELSE IF "shifter_reverse" \notin DOMAIN axis_mapping THEN Raise(self, "KeyError")
    ELSE IF axis_mapping.shifter_reverse # None /\ button = axis_mapping.shifter_reverse
    THEN [self EXCEPT !.neutral_mode = FALSE, !.control.gear = -1]
    ELSE self

\* mutant: entering the shifter mode puts the gear in neutral
cycle_transmission_mode_resets_gear(self) ==
    IF self.transmission_mode = "automatic"
    THEN [self EXCEPT !.transmission_mode = "manual",
                      !.control.manual_gear_shift = TRUE]
    ELSE IF self.transmission_mode = "manual"
    THEN [self EXCEPT !.transmission_mode = "automatic_shifter",
                      !.shifter_mode = TRUE,
                      !.neutral_mode = FALSE,
                      !.control.manual_gear_shift = FALSE,
                      !.control.gear = 0]
    ELSE [self EXCEPT !.transmission_mode = "automatic",
                      !.shifter_mode = FALSE,
                      !.neutral_mode = FALSE,
                      !.control.manual_gear_shift = FALSE]

\* mutant: leaving Manual keeps the manual-gear-shift flag
cycle_transmission_mode_keeps_flag(self) ==
    IF self.transmission_mode = "automatic"
    THEN [self EXCEPT !.transmission_mode = "manual",
                      !.control.manual_gear_shift = TRUE]
    ELSE IF self.transmission_mode = "manual"
    THEN [self EXCEPT !.transmission_mode = "automatic_shifter",
                      !.shifter_mode = TRUE,
                      !.neutral_mode = FALSE]
    ELSE [self EXCEPT !.transmission_mode = "automatic",
                      !.shifter_mode = FALSE,
                      !.neutral_mode = FALSE,
                      !.control.manual_gear_shift = FALSE]

\* the K_m branch of _handle_key
cycle_transmission_mode(self) ==
    IF self.transmission_mode = "automatic"
    THEN [self EXCEPT !.transmission_mode = "manual",
                      !.control.manual_gear_shift = TRUE]
    ELSE IF self.transmission_mode = "manual"
    THEN [self EXCEPT !.transmission_mode = "automatic_shifter",
                      !.shifter_mode = TRUE,
                      !.neutral_mode = FALSE,
                      !.control.manual_gear_shift = FALSE]
    ELSE [self EXCEPT !.transmission_mode = "automatic",
                      !.shifter_mode = FALSE,
                      !.neutral_mode = FALSE,
                      !.control.manual_gear_shift = FALSE]

\* the keys the first chain of _handle_key takes before it reads key_mapping
HudKeys == {"K_BACKSPACE", "K_F1", "K_h", "K_TAB", "K_c", "K_BACKQUOTE", "K_r"}

\* the first if/elif chain of _handle_key: self.key_mapping[...] of a missing
\* option raises KeyError
handle_key_mapped(self, km, key) ==
    IF key \in HudKeys THEN self
    ELSE IF "reverse" \notin DOMAIN km THEN Raise(self, "KeyError")
    ELSE IF key = PygameKey(km.reverse) THEN toggle_reverse(self)
    ELSE IF "handbrake" \notin DOMAIN km THEN Raise(self, "KeyError")
    ELSE IF key = PygameKey(km.handbrake)
    THEN [self EXCEPT !.control.hand_brake = ~self.control.hand_brake]
    ELSE IF "hide_hud" \notin DOMAIN km THEN Raise(self, "KeyError")
    ELSE IF key = PygameKey(km.hide_hud) THEN self
    ELSE IF "toggle_headlights" \notin DOMAIN km THEN Raise(self, "KeyError")
    ELSE self

\* mutant: the shift keys act in every transmission mode
handle_key_shift_anywhere(self, km, key) ==
    LET s1 == handle_key_mapped(self, km, key)
    IN  IF s1.raised # "" THEN s1
        ELSE IF key = "K_q" THEN toggle_reverse(s1)
        ELSE IF key = "K_m" THEN cycle_transmission_mode(s1)
        ELSE IF key = "K_COMMA"
        THEN [s1 EXCEPT !.control.gear = Max(-1, s1.control.gear - 1)]
        ELSE IF key = "K_PERIOD"
        THEN [s1 EXCEPT !.control.gear = s1.control.gear + 1]
        ELSE IF key = "K_p"
        THEN [s1 EXCEPT !.autopilot_enabled = ~s1.autopilot_enabled]
        ELSE s1

\* mutant: the shift-down key has no floor
handle_key_unclamped(self, km, key) ==
    LET s1 == handle_key_mapped(self, km, key)
    IN  IF s1.raised # "" THEN s1
        ELSE IF key = "K_q" THEN toggle_reverse(s1)
        ELSE IF key = "K_m" THEN cycle_transmission_mode(s1)
        ELSE IF s1.control.manual_gear_shift /\ key = "K_COMMA"
        THEN [s1 EXCEPT !.control.gear = s1.control.gear - 1]
        ELSE IF s1.control.manual_gear_shift /\ key = "K_PERIOD"
        THEN [s1 EXCEPT !.control.gear = s1.control.gear + 1]
        ELSE IF key = "K_p"
        THEN [s1 EXCEPT !.autopilot_enabled = ~s1.autopilot_enabled]
        ELSE s1

handle_key(self, km, key) ==
    LET s1 == handle_key_mapped(self, km, key)
    IN  IF s1.raised # "" THEN s1
        ELSE IF key = "K_q" THEN toggle_reverse(s1)
        ELSE IF key = "K_m" THEN cycle_transmission_mode(s1)
        ELSE IF s1.control.manual_gear_shift /\ key = "K_COMMA"
        THEN [s1 EXCEPT !.control.gear = Max(-1, s1.control.gear - 1)]
        ELSE IF s1.control.manual_gear_shift /\ key = "K_PERIOD"
        THEN [s1 EXCEPT !.control.gear = s1.control.gear + 1]
        ELSE IF key = "K_p"
        THEN [s1 EXCEPT !.autopilot_enabled = ~s1.autopilot_enabled]
        ELSE s1

is_quit_shortcut(key) == key = "K_ESCAPE"

\* n / d rounded to the nearest integer, d > 0
RoundDiv(n, d) == IF n >= 0 THEN (2 * n + d) \div (2 * d) ELSE -((2 * (-n) + d) \div (2 * d))

\* math.tan of a in thousandths of a radian, in thousandths
tan(a) ==
    CASE a = 0     -> 0
      [] a = 550   -> 613
      [] a = -550  -> -613
      [] a = 1100  -> 1965
      [] a = -1100 -> -1965
      [] a = 2200  -> -1374
      [] a = -2200 -> 1374

\* math.log10 of a > 0 in thousandths, in thousandths
log10(a) ==
    CASE a = 700  -> -155
      [] a = 1050 -> 21
      [] a = 1400 -> 146
      [] a = 1750 -> 243
      [] a = 2100 -> 322
      [] a = 2800 -> 447

\* round(x, 1) of x in thousandths; the steps of the steering cache never
\* fall halfway between two tenths
RoundTenth(x) == 100 * RoundDiv(x, 100)

\* the keys pygame.key.get_pressed() reports that drive the vehicle
DriveKeys == {"K_UP", "K_w", "K_DOWN", "K_s", "K_LEFT", "K_a", "K_RIGHT", "K_d", "K_SPACE"}

\* mutant: the throttle key acts in neutral too
parse_vehicle_keys_ignores_neutral(self, ks, milliseconds) ==
    LET steer_increment == RoundDiv(milliseconds, 2)
        cache == IF "K_LEFT" \in ks \/ "K_a" \in ks
                 THEN self.steer_cache - steer_increment
                 ELSE IF "K_RIGHT" \in ks \/ "K_d" \in ks
                 THEN self.steer_cache + steer_increment
                 ELSE 0
        steer_cache == Min(700, Max(-700, cache))
    IN  [self EXCEPT
            !.control.throttle = IF "K_UP" \in ks \/ "K_w" \in ks THEN 1000 ELSE 0,
            !.steer_cache = steer_cache,
            !.control.steer = RoundTenth(steer_cache),
            !.control.brake = IF "K_DOWN" \in ks \/ "K_s" \in ks THEN 1000 ELSE 0,
            !.control.hand_brake = "K_SPACE" \in ks]

\* _parse_vehicle_keys(keys, milliseconds); 5e-4 * milliseconds is
\* milliseconds / 2 thousandths
parse_vehicle_keys(self, ks, milliseconds) ==
    LET steer_increment == RoundDiv(milliseconds, 2)
        cache == IF "K_LEFT" \in ks \/ "K_a" \in ks
                 THEN self.steer_cache - steer_increment
                 ELSE IF "K_RIGHT" \in ks \/ "K_d" \in ks
                 THEN self.steer_cache + steer_increment
                 ELSE 0
        steer_cache == Min(700, Max(-700, cache))
    IN  [self EXCEPT
            !.control.throttle = IF ~self.neutral_mode
                                 THEN IF "K_UP" \in ks \/ "K_w" \in ks THEN 1000 ELSE 0
                                 ELSE 0,
            !.steer_cache = steer_cache,
            !.control.steer = RoundTenth(steer_cache),
            !.control.brake = IF "K_DOWN" \in ks \/ "K_s" \in ks THEN 1000 ELSE 0,
            !.control.hand_brake = "K_SPACE" \in ks]

\* damping * math.tan(1.1 * x)
SteerCurve(x, damping) == RoundDiv(damping * tan(RoundDiv(1100 * x, 1000)), 1000)

\* -0.7 * x + 1.4, the argument of the logarithm
PedalLogArg(x) == 1400 - RoundDiv(700 * x, 1000)

\* damping * (1.6 + (2.05 * math.log10(-0.7 * x + 1.4) - 1.2) / 0.92)
PedalCurve(x, damping) ==
    LET inner == RoundDiv(2050 * log10(PedalLogArg(x)), 1000) - 1200
    IN  RoundDiv(damping * (1600 + RoundDiv(1000 * inner, 920)), 1000)

\* max(0, min(1, cmd))
Clamp01(cmd) == Max(0, Min(1000, cmd))

\* mutant: the pedal commands are not clamped
parse_vehicle_wheel_unclamped(self, am, numAxes, js) ==
    LET steering_axis == am.steering
        throttle_axis == am.throttle
        brake_axis    == am.brake
    IN  IF steering_axis = None \/ throttle_axis = None \/ brake_axis = None THEN self
        ELSE IF steering_axis >= numAxes THEN Raise(self, "IndexError")
        ELSE IF throttle_axis >= numAxes THEN Raise(self, "IndexError")
        ELSE IF PedalLogArg(js[throttle_axis]) <= 0 THEN Raise(self, "ValueError")
        ELSE IF brake_axis >= numAxes THEN Raise(self, "IndexError")
        ELSE IF PedalLogArg(js[brake_axis]) <= 0 THEN Raise(self, "ValueError")
        ELSE LET steerCmd    == SteerCurve(js[steering_axis], am.steering_damping)
                 throttleCmd == PedalCurve(js[throttle_axis], am.throttle_damping)
                 brakeCmd    == PedalCurve(js[brake_axis], am.brake_damping)
             IN  [self EXCEPT !.control.steer = steerCmd,
                              !.control.brake = brakeCmd,
                              !.control.throttle = IF ~self.neutral_mode
                                                   THEN throttleCmd ELSE 0]

\* _parse_vehicle_wheel() with the joystick of numAxes axes reporting js (a
\* function on 0 .. numAxes-1): jsInputs[i] raises IndexError for i >= numAxes
\* and math.log10 raises ValueError for an argument <= 0
parse_vehicle_wheel(self, am, numAxes, js) ==
    LET steering_axis == am.steering
        throttle_axis == am.throttle
        brake_axis    == am.brake
    IN  IF steering_axis = None \/ throttle_axis = None \/ brake_axis = None THEN self
        ELSE IF steering_axis >= numAxes THEN Raise(self, "IndexError")
        ELSE IF throttle_axis >= numAxes THEN Raise(self, "IndexError")
        ELSE IF PedalLogArg(js[throttle_axis]) <= 0 THEN Raise(self, "ValueError")
        ELSE IF brake_axis >= numAxes THEN Raise(self, "IndexError")
        ELSE IF PedalLogArg(js[brake_axis]) <= 0 THEN Raise(self, "ValueError")
        ELSE LET steerCmd    == SteerCurve(js[steering_axis], am.steering_damping)
                 throttleCmd == Clamp01(PedalCurve(js[throttle_axis], am.throttle_damping))
                 brakeCmd    == Clamp01(PedalCurve(js[brake_axis], am.brake_damping))
             IN  [self EXCEPT !.control.steer = steerCmd,
                              !.control.brake = brakeCmd,
                              !.control.throttle = IF ~self.neutral_mode
                                                   THEN throttleCmd ELSE 0]

\* the for loop of parse_events over the events evs: the controller it leaves
\* and whether it returned True; an exception of a handler ends it
RECURSIVE parse_event_loop(_, _, _)
parse_event_loop(self, km, evs) ==
    IF evs = <<>> \/ self.raised # "" THEN [self |-> self, quit |-> FALSE]
    ELSE LET event == Head(evs) IN
         IF event.type = "QUIT" THEN [self |-> self, quit |-> TRUE]
         ELSE IF event.type = "JOYBUTTONDOWN"
         THEN parse_event_loop(handle_joystick_button(self, event.button), km, Tail(evs))
         ELSE IF is_quit_shortcut(event.key) THEN [self |-> self, quit |-> TRUE]
         ELSE parse_event_loop(handle_key(self, km, event.key), km, Tail(evs))

\* the statements of parse_events after its loop; applies says whether
\* world.player.apply_control(self._control) was reached
parse_vehicle_input(self, ks, milliseconds, js) ==
    LET s1 == parse_vehicle_keys(self, ks, milliseconds)
        s2 == IF joystick # None
              THEN parse_vehicle_wheel(s1, axis_mapping, joystick, js) ELSE s1
    IN  IF s2.raised # "" THEN [self |-> s2, quit |-> FALSE, applies |-> FALSE]
        ELSE [self |-> [s2 EXCEPT !.control.reverse = s2.control.gear < 0],
              quit |-> FALSE, applies |-> TRUE]

\* parse_events(world, clock) with pygame.event.get() = evs,
\* pygame.key.get_pressed() = ks, clock.get_time() = milliseconds and the
\* joystick axes reporting js
parse_events(self, km, evs, ks, milliseconds, js) ==
    LET r == parse_event_loop(self, km, evs) IN
    IF r.quit \/ r.self.raised # "" \/ r.self.autopilot_enabled
    THEN [self |-> r.self, quit |-> r.quit, applies |-> FALSE]
    ELSE parse_vehicle_input(r.self, ks, milliseconds, js)

---------------------------------------------------------------------------
(* game_loop of the research client, one action per statement of the loop *)

simvars == <<sim, images>>

\* the configuration of the controller
cfgvars == <<key_mapping, axis_mapping, joystick>>

ctlvars == <<controller, events, jsInputs, applied, cfgvars>>

\* the research client runs
InGameLoop == prog \in {"research", "control", "drive", "config", "wheel"}

\* the event lists of at most n events
EventLists(n) == UNION {[1..k -> ControlEvents] : k \in 0..n}

\* what pygame.event.get() returns in a frame
FrameEvents ==
    CASE prog \in {"control", "config"} -> EventLists(MaxEvents)
      [] prog = "drive"                 -> EventLists(1)
      [] OTHER                          -> {<<>>, <<QuitEvent>>}

\* the speed readings of a frame
FrameSpeeds == IF prog = "research" THEN Speeds ELSE {30}

\* what pygame.key.get_pressed() returns in a frame: the keys of the trial, or
\* the keys that drive the vehicle
FrameKeys ==
    CASE prog = "research" -> SUBSET TrialKeys
      [] prog = "control"  -> {{}}
      [] prog = "drive"    -> {{}, {"K_UP"}}
      [] prog = "config"   -> {{}}
      [] prog = "wheel"    -> {{}, {"K_UP"}, {"K_DOWN"}}

\* the time a frame takes; the trial alone looks at the time
FrameTimes == IF prog = "research" THEN 1..MaxDt ELSE {1}

\* what clock.get_time() returns in a frame, in milliseconds
FrameMillis == {200}

\* the values an axis of the wheel reports, in thousandths; 2000 is a value
\* outside the range [-1, 1] of a calibrated axis
AxisValues == {-1000, 0, 1000, 2000}

\* the pedal axes at rest and the throttle pedal pressed or released
PedalInputs ==
    { [i \in 0..(joystick - 1) |-> IF i = axis_mapping.throttle THEN x
                                   ELSE IF i = axis_mapping.brake THEN 1000 ELSE 0]
      : x \in {-1000, 1000} }

\* what joystick.get_axis reports in a frame
FrameAxes ==
    IF joystick = None THEN {<<>>}
    ELSE IF prog = "wheel" THEN [0..(joystick - 1) -> AxisValues]
    ELSE PedalInputs

\* clock.tick_busy_loop(60); controller.parse_events(...); keys = get_pressed()
GameLoopFrame ==
    /\ InGameLoop /\ pc = "frame"
    /\ \E dt \in FrameTimes : now + dt <= MaxTime /\ now' = now + dt
    /\ \E evs \in FrameEvents, ks \in FrameKeys, ms \in FrameMillis, js \in FrameAxes :
          LET r == parse_events(controller, key_mapping, evs, ks, ms, js) IN
          /\ r.self.control.gear <= MaxGear
          /\ controller' = r.self
          /\ events' = evs
          /\ applied' = IF r.applies THEN r.self.control ELSE applied
          /\ IF r.quit THEN pc' = "done" /\ keys' = {} /\ jsInputs' = <<>>
             ELSE /\ pc' = IF r.self.raised # "" THEN "done" ELSE "kp1"
                  /\ keys' = ks /\ jsInputs' = js
    /\ UNCHANGED <<prog, sensors, trial_manager, samples, simvars, cfgvars>>

\* if keys[K_KP1]: trial_manager.start_trial(world.player)
GameLoopStart ==
    /\ InGameLoop /\ pc = "kp1"
    /\ trial_manager' = IF "K_KP1" \in keys THEN start_trial(trial_manager)
                                            ELSE trial_manager
    /\ pc' = "initiate"
    /\ events' = <<>>
    /\ jsInputs' = <<>>
    /\ UNCHANGED <<prog, sensors, now, keys, samples, simvars, controller, applied, cfgvars>>

\* mutant: the RETURN key initiates the trial whether or not the start screen is up
GameLoopInitiate_unguarded ==
    /\ InGameLoop /\ pc = "initiate"
    /\ IF "K_RETURN" \in keys
       THEN trial_manager' = initiate_trial(trial_manager, now) /\ samples' = <<>>
       ELSE UNCHANGED <<trial_manager, samples>>
    /\ pc' = "end"
    /\ UNCHANGED <<prog, sensors, now, keys, sim, images, ctlvars>>

\* if keys[K_RETURN] and trial_manager.start_screen: trial_manager.initiate_trial()
GameLoopInitiate ==
    /\ InGameLoop /\ pc = "initiate"
    /\ IF "K_RETURN" \in keys /\ trial_manager.start_screen
       THEN trial_manager' = initiate_trial(trial_manager, now) /\ samples' = <<>>
       ELSE UNCHANGED <<trial_manager, samples>>
    /\ pc' = "end"
    /\ UNCHANGED <<prog, sensors, now, keys, simvars, ctlvars>>

\* mutant: the SPACE key ends the trial whether or not it is active
GameLoopEnd_unguarded ==
    /\ InGameLoop /\ pc = "end"
    /\ trial_manager' = IF "K_SPACE" \in keys
                        THEN end_trial(trial_manager, now)
                        ELSE trial_manager
    /\ pc' = "restart"
    /\ UNCHANGED <<prog, sensors, now, keys, samples, sim, images, ctlvars>>

\* if keys[K_SPACE] and trial_manager.trial_active: trial_manager.end_trial()
GameLoopEnd ==
    /\ InGameLoop /\ pc = "end"
    /\ trial_manager' = IF "K_SPACE" \in keys /\ trial_manager.trial_active
                        THEN end_trial(trial_manager, now)
                        ELSE trial_manager
    /\ pc' = "restart"
    /\ UNCHANGED <<prog, sensors, now, keys, samples, simvars, ctlvars>>

\* if keys[K_RETURN] and trial_manager.display_results: trial_manager.start_trial(...)
GameLoopRestart ==
    /\ InGameLoop /\ pc = "restart"
    /\ trial_manager' = IF "K_RETURN" \in keys /\ trial_manager.display_results
                        THEN start_trial(trial_manager)
                        ELSE trial_manager
    /\ pc' = "track"
    /\ UNCHANGED <<prog, sensors, now, keys, samples, simvars, ctlvars>>

\* speed = 2.23694 * |velocity|; trial_manager.track_speed(speed); render; flip
GameLoopTrack ==
    /\ InGameLoop /\ pc = "track"
    /\ \E speed \in FrameSpeeds :
          /\ trial_manager' = track_speed(trial_manager, speed, now)
          /\ samples' = IF trial_manager.trial_active
                        THEN Append(samples, <<speed, now>>)
                        ELSE samples
    /\ pc' = "frame"
    /\ keys' = {}
    /\ UNCHANGED <<prog, sensors, now, simvars, ctlvars>>

NextResearch ==
    \/ GameLoopFrame
    \/ GameLoopStart
    \/ GameLoopInitiate
    \/ GameLoopEnd
    \/ GameLoopRestart
    \/ GameLoopTrack

---------------------------------------------------------------------------
(* CarlaSimulator (time-trial client): the fields of the trial run *)

CarlaSimulator_init ==
    [ speed_violation_count   |-> 0,
      speed_exceeded          |-> FALSE,
      trial_run_active        |-> FALSE,
      trial_countdown         |-> FALSE,
      countdown_start_time    |-> 0,
      trial_running           |-> FALSE,
      trial_timer_start       |-> 0,
      trial_timer             |-> 0,
      max_speed               |-> 0,
      average_speed           |-> 0,
      violation_durations     |-> <<>>,
      current_violation_start |-> 0,
      go_text_display_time    |-> 0,
      results_displayed       |-> FALSE,
      speed_sum               |-> 0,
      speed_sample_count      |-> 0,
      final_duration          |-> 0,
      control                 |-> VehicleControl,
      vehicle                 |-> VehicleControl,
      raised                  |-> "" ]

\* self.vehicle.apply_control(self.control): vehicle is the control vector the
\* vehicle holds
apply_control(self) == [self EXCEPT !.vehicle = self.control]

\* int(x) of Python for x = n / d with d > 0: truncation toward zero
IntTrunc(n, d) == IF n >= 0 THEN n \div d ELSE -((-n) \div d)

display_speed(self, speed, t) ==
    LET s1 == IF speed > max_speed_limit
              THEN IF ~self.speed_exceeded
                   THEN [self EXCEPT !.speed_violation_count = self.speed_violation_count + 1,
                                     !.speed_exceeded = TRUE,
                                     !.current_violation_start = t]
                   ELSE self
              ELSE IF self.speed_exceeded
                   THEN [self EXCEPT !.speed_exceeded = FALSE,
                                     !.violation_durations =
                                         Append(self.violation_durations,
                                                t - self.current_violation_start)]
                   ELSE self
    IN  IF self.trial_running
        THEN [s1 EXCEPT !.speed_sum = self.speed_sum + speed,
                        !.speed_sample_count = self.speed_sample_count + 1,
                        !.max_speed = Max(self.max_speed, speed)]
        ELSE s1

display_countdown(self, t) ==
    LET countdown == IntTrunc(countdown_duration * TimeUnit - (t - self.countdown_start_time),
                              TimeUnit)
    IN  IF countdown <= 0
        THEN [self EXCEPT !.trial_countdown = FALSE,
                          !.trial_running = TRUE,
                          !.trial_timer_start = t,
                          !.max_speed = 0,
                          !.average_speed = 0,
                          !.speed_violation_count = 0,
                          !.violation_durations = <<>>,
                          !.speed_sum = 0,
                          !.speed_sample_count = 0,
                          !.go_text_display_time = t,
                          !.control.throttle = throttle_sensitivity,
                          !.control.steer = 0,
                          !.control.brake = 0]
        ELSE self

display_timer(self, t) ==
    [self EXCEPT !.trial_timer = t - self.trial_timer_start]

display_trial_run_screen(self, t) ==
    IF self.trial_countdown THEN display_countdown(self, t) ELSE self

process_image(self, speed, t) ==
    LET s1 == display_speed(self, speed, t)
        s2 == IF s1.trial_run_active \/ s1.trial_countdown \/ s1.results_displayed
              THEN display_trial_run_screen(s1, t) ELSE s1
        s3 == IF s2.trial_countdown THEN display_countdown(s2, t) ELSE s2
    IN  IF s3.trial_running THEN display_timer(s3, t) ELSE s3

\* self.control = carla.VehicleControl(); self.vehicle.apply_control(self.control)
teleport_vehicle(self) == apply_control([self EXCEPT !.control = VehicleControl])

start_trial_run(self) ==
    teleport_vehicle([self EXCEPT !.trial_run_active = TRUE,
                                  !.speed_violation_count = 0])

start_countdown(self, t) ==
    [self EXCEPT !.trial_run_active = FALSE,
                 !.trial_countdown = TRUE,
                 !.countdown_start_time = t]

sim_calculate_results(self) == self

\* the figures display_results computes and renders
sim_display_results(self) ==
    LET total_violations == Len(self.violation_durations) IN
    [ duration                   |-> self.final_duration,
      max_speed                  |-> self.max_speed,
      average_speed              |-> Div(self.speed_sum,
                                         IF self.speed_sample_count > 0
                                         THEN self.speed_sample_count ELSE 1),
      speed_violations           |-> self.speed_violation_count,
      average_violation_duration |-> IF total_violations > 0
                                     THEN Div(Sum(self.violation_durations), total_violations)
                                     ELSE <<0, 1>> ]

stop_trial_run(self, t) ==
    sim_calculate_results(
        [self EXCEPT !.trial_running = FALSE,
                     !.results_displayed = TRUE,
                     !.final_duration = t - self.trial_timer_start])

\* self.control.throttle = 0.0; self.control.steer = 0.0; self.control.brake = 0.0
zero_controls(self) ==
    [self EXCEPT !.control.throttle = 0, !.control.steer = 0, !.control.brake = 0]

\* the w, s, a, d, SPACE and q keys of keyboard_control
drive_keys(self, ks) ==
    [self EXCEPT
        !.control.throttle   = IF "K_w" \in ks THEN throttle_sensitivity ELSE @,
        !.control.brake      = IF "K_s" \in ks THEN 1000 ELSE @,
        !.control.steer      = IF "K_d" \in ks THEN steering_sensitivity
                               ELSE IF "K_a" \in ks THEN -steering_sensitivity ELSE @,
        !.control.hand_brake = "K_SPACE" \in ks,
        !.control.reverse    = IF "K_q" \in ks THEN ~@ ELSE @]

\* mutant: the keys drive the vehicle during the countdown too
keyboard_control_in_countdown(self, ks, t) ==
    LET s0 == zero_controls(self) IN
    IF ~self.trial_run_active /\ ~self.trial_countdown
         /\ ~self.trial_running /\ ~self.results_displayed
    THEN LET s1 == drive_keys(s0, ks) IN
         apply_control(IF "K_1" \in ks THEN start_trial_run(s1) ELSE s1)
    ELSE IF self.trial_run_active
    THEN apply_control(IF "K_SPACE" \in ks THEN start_countdown(s0, t) ELSE s0)
    ELSE IF self.trial_countdown \/ self.trial_running
    THEN apply_control(drive_keys(s0, ks))
    ELSE apply_control(IF "K_ESCAPE" \in ks
                       THEN [s0 EXCEPT !.results_displayed = FALSE,
                                       !.trial_run_active = FALSE]
                       ELSE s0)

\* keyboard_control(events) with pygame.key.get_pressed() = ks; the r, t, c
\* and m keys are not pressed
keyboard_control(self, ks, t) ==
    LET s0 == zero_controls(self) IN
    IF ~self.trial_run_active /\ ~self.trial_countdown
         /\ ~self.trial_running /\ ~self.results_displayed
    THEN LET s1 == drive_keys(s0, ks) IN
         apply_control(IF "K_1" \in ks THEN start_trial_run(s1) ELSE s1)
    ELSE IF self.trial_run_active
    THEN apply_control(IF "K_SPACE" \in ks THEN start_countdown(s0, t) ELSE s0)
    ELSE IF self.trial_countdown
    THEN s0
    ELSE IF self.trial_running
    THEN apply_control(drive_keys(s0, ks))
    ELSE apply_control(IF "K_ESCAPE" \in ks
                       THEN [s0 EXCEPT !.results_displayed = FALSE,
                                       !.trial_run_active = FALSE]
                       ELSE s0)

\* the axes gamepad_control reads: left stick x, left trigger, right trigger
PadAxes == {0, 4, 5}

\* gamepad_control(events) with the gamepad of numAxes axes reporting js (a
\* function on 0 .. numAxes-1) and the buttons of the set buttons held;
\* get_axis(i) raises pygame.error for i >= numAxes
gamepad_control(self, numAxes, js, buttons) ==
    LET s0 == zero_controls(self) IN
    IF self.trial_run_active \/ self.trial_countdown THEN s0
    ELSE IF \E i \in PadAxes : i >= numAxes THEN [s0 EXCEPT !.raised = "pygame.error"]
    ELSE LET left_x        == js[0]
             right_trigger == js[5]
             left_trigger  == js[4]
         IN  apply_control(
               [s0 EXCEPT
                  !.control.steer      = left_x,
                  !.control.throttle   = IF right_trigger > -500
                                         THEN RoundDiv(right_trigger + 1000, 2) ELSE @,
                  !.control.brake      = IF left_trigger > -500
                                         THEN RoundDiv(left_trigger + 1000, 2) ELSE @,
                  !.control.reverse    = IF 1 \in buttons THEN TRUE
                                         ELSE IF 0 \in buttons THEN FALSE ELSE @,
                  !.control.hand_brake = 2 \in buttons])

\* the trial run has entered Running in this step
EntersRunning(old, new) == ~old.trial_running /\ new.trial_running

---------------------------------------------------------------------------
(* run() of the nsti client, and the camera callback *)

resvars == <<trial_manager, controller, events, jsInputs, cfgvars>>

\* the counters of the violations stay within the bounds of the model
WithinBounds(self) ==
    /\ self.speed_violation_count <= MaxViolations
    /\ Len(self.violation_durations) <= MaxViolations

\* the time-trial client runs
InRun == prog \in {"nsti", "pad"}

\* what pygame.key.get_pressed() returns in an iteration
RunKeys ==
    IF prog = "nsti" THEN SUBSET SimKeys
    ELSE {{}, {"K_1"}, {"K_SPACE"}, {"K_w"}, {"K_q"}, {"K_w", "K_d"}}

\* what the axes of the gamepad report in an iteration, in thousandths: the
\* stick centred or to the right, the triggers released or pressed
PadInputs ==
    { [i \in 0..(joystick - 1) |-> IF i = 0 THEN x ELSE IF i = 5 THEN rt
                                   ELSE IF i = 4 THEN lt ELSE 0]
      : x \in {0, 1000}, rt \in {-1000, 1000}, lt \in {-1000, 0} }

\* the buttons of the gamepad held in an iteration: none, A or B
PadButtons == {{}, {0}, {1}}

\* the speed readings of an iteration
RunSpeeds == IF prog = "nsti" THEN SimSpeeds ELSE {30}

\* the keys of throttle, brake and steering, which keys records of an iteration
PedalKeys == {"K_w", "K_s", "K_a", "K_d"}

\* the first event of pygame.event.get() routes the iteration: none, a key
\* event or, with a gamepad, a joystick event
RouterEvents == IF joystick = None THEN {"none", "key"} ELSE {"none", "key", "joy"}

\* the clock units an iteration of run() takes; with the gamepad scenario the
\* loop goes on iterating within the last clock reading of the model as long
\* as the countdown runs
RunTimes ==
    IF prog = "pad" /\ now = MaxTimeSim /\ sim.trial_countdown THEN {0} ELSE 1..MaxDt

\* the points of an iteration at which the window is closed, which posts a QUIT
\* event to the queue of pygame: any point with the gamepad scenario, the
\* point before the final event loop otherwise
QuitPoints == IF prog = "pad" THEN {"input", "speed", "quit"} ELSE {"quit"}

\* the user closes the window: pygame appends a QUIT event to its queue, which
\* events holds until an event.get() takes it
PostQuit ==
    /\ InRun /\ pc \in QuitPoints
    /\ events = <<>>
    /\ events' = <<QuitEvent>>
    /\ UNCHANGED <<prog, sensors, now, pc, keys, sim, images, samples, trial_manager,
                   controller, jsInputs, cfgvars, applied>>

\* self.world.tick(); self.clock.tick_busy_loop(60); self.input_router():
\* events = pygame.event.get() empties the queue and the loop of input_router
\* looks at key and joystick events only
RunInputRouter ==
    /\ InRun /\ pc = "input"
    /\ \E dt \in RunTimes : now + dt <= MaxTimeSim /\ now' = now + dt
    /\ \E ev \in RouterEvents :
          \/ /\ ev = "none"
             /\ UNCHANGED <<sim, keys, jsInputs>>
          \/ /\ ev = "key"
             /\ \E ks \in RunKeys : /\ sim' = keyboard_control(sim, ks, now')
                                     /\ keys' = ks \cap PedalKeys
             /\ jsInputs' = <<>>
          \/ /\ ev = "joy"
             /\ \E js \in PadInputs, buttons \in PadButtons :
                   sim' = gamepad_control(sim, joystick, js, buttons) /\ jsInputs' = js
             /\ keys' = {}
    /\ applied' = sim'.vehicle
    /\ images' = 0
    /\ events' = <<>>
    /\ pc' = IF sim'.raised # "" THEN "done" ELSE "speed"
    /\ UNCHANGED <<prog, sensors, samples, trial_manager, controller, cfgvars>>

\* self.display_speed()
RunDisplaySpeed ==
    /\ InRun /\ pc = "speed"
    /\ \E speed \in RunSpeeds :
          /\ sim' = display_speed(sim, speed, now)
          /\ WithinBounds(sim')
          /\ samples' = IF sim.trial_running THEN Append(samples, <<speed, now>>)
                                              ELSE samples
    /\ pc' = "quit"
    /\ keys' = {}
    /\ jsInputs' = <<>>
    /\ UNCHANGED <<prog, sensors, now, images, trial_manager, controller, events, cfgvars, applied>>

\* for event in pygame.event.get(): if event.type == pygame.QUIT: return
RunQuitCheck ==
    /\ InRun /\ pc = "quit"
    /\ pc' = IF \E i \in 1..Len(events) : events[i].type = "QUIT" THEN "done" ELSE "input"
    /\ events' = <<>>
    /\ UNCHANGED <<prog, sensors, now, keys, sim, images, samples, trial_manager, controller,
                   jsInputs, cfgvars, applied>>

\* self.camera.listen(lambda image: self.process_image(image))
CameraImage ==
    /\ InRun /\ pc # "done"
    /\ images < MaxImages
    /\ images' = images + 1
    /\ \E speed \in RunSpeeds :
          /\ sim' = process_image(sim, speed, now)
          /\ WithinBounds(sim')
          /\ samples' = IF sim.trial_running THEN Append(samples, <<speed, now>>)
                        ELSE IF EntersRunning(sim, sim') THEN <<>>
                        ELSE samples
    /\ UNCHANGED <<prog, sensors, now, pc, keys, resvars, applied>>

NextNSTI ==
    \/ RunInputRouter
    \/ RunDisplaySpeed
    \/ RunQuitCheck
    \/ CameraImage
    \/ PostQuit

---------------------------------------------------------------------------
(* CollisionSensor and CameraManager of the research client *)

\* CollisionSensor.__init__: self.history = []; CameraManager.__init__:
\* self.surface = None. collisions and delivered count the events and the
\* images the callbacks have received.
Sensors_init == [history |-> <<>>, surface |-> None, collisions |-> 0, delivered |-> 0]

\* math.sqrt of a square number
sqrt(n) == CHOOSE r \in 0..n : r * r = n

\* normal_impulse of the collision events
Impulses == {<<3, 4, 0>>}

\* mutant of _on_collision: nothing is dropped from the history
on_collision_keeps_all(self, event) ==
    LET impulse   == event.normal_impulse
        intensity == sqrt(impulse[1] * impulse[1] + impulse[2] * impulse[2]
                          + impulse[3] * impulse[3])
    IN  [self EXCEPT !.history = Append(self.history, <<event.frame, intensity>>),
                     !.collisions = self.collisions + 1]

\* CollisionSensor._on_collision(weak_self, event)
on_collision(self, event) ==
    LET impulse   == event.normal_impulse
        intensity == sqrt(impulse[1] * impulse[1] + impulse[2] * impulse[2]
                          + impulse[3] * impulse[3])
        history   == Append(self.history, <<event.frame, intensity>>)
    IN  [self EXCEPT !.history = IF Len(history) > history_limit THEN Tail(history)
                                                                  ELSE history,
                     !.collisions = self.collisions + 1]

\* CameraManager._parse_image(weak_self, image): both branches assign the
\* surface made of the image to self.surface
parse_image(self, image) ==
    [self EXCEPT !.surface = image.frame, !.delivered = self.delivered + 1]

\* the sensors of the research client deliver
InSensors == prog = "sensor"

\* the collision sensor calls _on_collision with its next event
OnCollision ==
    /\ InSensors
    /\ sensors.collisions < MaxCollisions
    /\ \E impulse \in Impulses :
          sensors' = on_collision(sensors, [frame |-> sensors.collisions + 1,
                                            normal_impulse |-> impulse])
    /\ UNCHANGED <<prog, now, pc, keys, trial_manager, sim, images, samples,
                   controller, key_mapping, events, axis_mapping, joystick,
                   jsInputs, applied>>

\* the camera calls _parse_image with its next image
ParseImage ==
    /\ InSensors
    /\ sensors.delivered < MaxCameraFrames
    /\ sensors' = parse_image(sensors, [frame |-> sensors.delivered + 1])
    /\ UNCHANGED <<prog, now, pc, keys, trial_manager, sim, images, samples,
                   controller, key_mapping, events, axis_mapping, joystick,
                   jsInputs, applied>>

NextSensors ==
    \/ OnCollision
    \/ ParseImage

---------------------------------------------------------------------------
(* Specifications *)

InitResearch ==
    /\ prog = "research"
    /\ sensors = Sensors_init
    /\ now = 0
    /\ pc = "frame"
    /\ keys = {}
    /\ trial_manager = TrialManager_init
    /\ sim = CarlaSimulator_init
    /\ images = 0
    /\ samples = <<>>
    /\ controller = DualControl_init
    /\ key_mapping = FullKeyMapping("q")
    /\ events = <<>>
    /\ axis_mapping = FullAxisMapping
    /\ joystick = None
    /\ jsInputs = <<>>
    /\ applied = VehicleControl

InitNSTI ==
    /\ prog = "nsti"
    /\ sensors = Sensors_init
    /\ now = 0
    /\ pc = "input"
    /\ keys = {}
    /\ trial_manager = TrialManager_init
    /\ sim = CarlaSimulator_init
    /\ images = 0
    /\ samples = <<>>
    /\ controller = DualControl_init
    /\ key_mapping = FullKeyMapping("q")
    /\ events = <<>>
    /\ axis_mapping = FullAxisMapping
    /\ joystick = None
    /\ jsInputs = <<>>
    /\ applied = VehicleControl

\* the research client with the events of the transmission as its input
InitControl ==
    /\ prog = "control"
    /\ sensors = Sensors_init
    /\ now = 0
    /\ pc = "frame"
    /\ keys = {}
    /\ trial_manager = TrialManager_init
    /\ sim = CarlaSimulator_init
    /\ images = 0
    /\ samples = <<>>
    /\ controller = DualControl_init
    /\ key_mapping \in KeyMappings
    /\ events = <<>>
    /\ axis_mapping = FullAxisMapping
    /\ joystick = None
    /\ jsInputs = <<>>
    /\ applied = VehicleControl

\* key_mapping as load_config returns it without a [KeyMapping] section
EmptyKeyMapping == <<>>

\* [AxisMapping] without the joy_shifter_* options
NoShifterAxisMapping == [reverse |-> 4] @@ WheelBindings @@ default_axis_mapping

\* the research client with the events of the transmission as its input, with
\* and without the key bindings and the shifter bindings in the configuration
InitConfig ==
    /\ prog = "config"
    /\ sensors = Sensors_init
    /\ now = 0
    /\ pc = "frame"
    /\ keys = {}
    /\ trial_manager = TrialManager_init
    /\ sim = CarlaSimulator_init
    /\ images = 0
    /\ samples = <<>>
    /\ controller = DualControl_init
    /\ key_mapping \in {EmptyKeyMapping, FullKeyMapping("q")}
    /\ events = <<>>
    /\ axis_mapping \in {NoShifterAxisMapping, FullAxisMapping}
    /\ joystick = None
    /\ jsInputs = <<>>
    /\ applied = VehicleControl

\* the damping factors of [AxisMapping] considered, in thousandths
Dampings == {500, 1000, 2000}

\* [AxisMapping] with each of the steering, throttle and brake axes bound or
\* not, and each damping factor
WheelAxisMappings ==
    { [ steering |-> s, throttle |-> t, brake |-> b,
        steering_damping |-> sd, throttle_damping |-> pd, brake_damping |-> pd ]
      @@ FullAxisMapping
      : s \in {None, WheelBindings.steering}, t \in {None, WheelBindings.throttle},
        b \in {None, WheelBindings.brake}, sd \in Dampings, pd \in Dampings }

\* the research client with the axes of a wheel as its input: no wheel, one of
\* three axes, one of two
InitWheel ==
    /\ prog = "wheel"
    /\ sensors = Sensors_init
    /\ now = 0
    /\ pc = "frame"
    /\ keys = {}
    /\ trial_manager = TrialManager_init
    /\ sim = CarlaSimulator_init
    /\ images = 0
    /\ samples = <<>>
    /\ controller = DualControl_init
    /\ key_mapping = FullKeyMapping("q")
    /\ events = <<>>
    /\ axis_mapping \in WheelAxisMappings
    /\ joystick \in {None, 3, 2}
    /\ jsInputs = <<>>
    /\ applied = VehicleControl

\* the time-trial client with the keys and the gamepad that drive the vehicle
\* as its input: no gamepad, one of six axes, one of four
InitPad ==
    /\ prog = "pad"
    /\ sensors = Sensors_init
    /\ now = 0
    /\ pc = "input"
    /\ keys = {}
    /\ trial_manager = TrialManager_init
    /\ sim = CarlaSimulator_init
    /\ images = 0
    /\ samples = <<>>
    /\ controller = DualControl_init
    /\ key_mapping = FullKeyMapping("q")
    /\ events = <<>>
    /\ axis_mapping = FullAxisMapping
    /\ joystick \in {None, 6, 4}
    /\ jsInputs = <<>>
    /\ applied = VehicleControl

\* the research client with the events of the transmission, the throttle key
\* and the pedals of a wheel as its input, with and without the wheel
InitDrive ==
    /\ prog = "drive"
    /\ sensors = Sensors_init
    /\ now = 0
    /\ pc = "frame"
    /\ keys = {}
    /\ trial_manager = TrialManager_init
    /\ sim = CarlaSimulator_init
    /\ images = 0
    /\ samples = <<>>
    /\ controller = DualControl_init
    /\ key_mapping = FullKeyMapping("q")
    /\ events = <<>>
    /\ axis_mapping = FullAxisMapping
    /\ joystick \in {None, 3}
    /\ jsInputs = <<>>
    /\ applied = VehicleControl

\* the two clients with the keys of the trial as their input
InitSensors ==
    /\ prog = "sensor"
    /\ sensors = Sensors_init
    /\ now = 0
    /\ pc = "frame"
    /\ keys = {}
    /\ trial_manager = TrialManager_init
    /\ sim = CarlaSimulator_init
    /\ images = 0
    /\ samples = <<>>
    /\ controller = DualControl_init
    /\ key_mapping = FullKeyMapping("q")
    /\ events = <<>>
    /\ axis_mapping = FullAxisMapping
    /\ joystick = None
    /\ jsInputs = <<>>
    /\ applied = VehicleControl

Init == InitResearch \/ InitNSTI

Next == NextResearch \/ NextNSTI

SpecResearch == InitResearch /\ [][NextResearch]_vars

SpecNSTI == InitNSTI /\ [][NextNSTI]_vars

SpecControl == InitControl /\ [][NextResearch]_vars

SpecDrive == InitDrive /\ [][NextResearch]_vars

SpecPad == InitPad /\ [][NextNSTI]_vars

SpecConfig == InitConfig /\ [][NextResearch]_vars

SpecWheel == InitWheel /\ [][NextResearch]_vars

\* both clients with a wheel or a gamepad
SpecWheelPad == (InitWheel \/ InitPad) /\ [][Next]_vars

SpecSensors == InitSensors /\ [][NextSensors]_vars

\* run() is a while True loop, so each of its steps is taken when its turn
\* comes, and the camera delivers an image for every world.tick() of the loop
FairSpecPad ==
    /\ SpecPad
    /\ WF_vars(RunInputRouter) /\ WF_vars(RunDisplaySpeed) /\ WF_vars(RunQuitCheck)
    /\ WF_vars(CameraImage)

\* the loop of run() alone is fair, the camera may stay silent
LoopFairSpecPad ==
    /\ SpecPad
    /\ WF_vars(RunInputRouter) /\ WF_vars(RunDisplaySpeed) /\ WF_vars(RunQuitCheck)

Spec == Init /\ [][Next]_vars

---------------------------------------------------------------------------
(* Vocabulary of the properties *)

Last(s) == s[Len(s)]

\* the speed limit the running client compares the samples with
Limit == IF prog = "research" THEN trial_manager.max_speed ELSE max_speed_limit

\* the trial run is in Running
Running == IF prog = "research" THEN trial_manager.trial_active ELSE sim.trial_running

\* number of violations counted by the running client
ViolationCount ==
    IF prog = "research" THEN trial_manager.violation_count ELSE sim.speed_violation_count

\* a violation interval is open
IntervalOpen ==
    IF prog = "research" THEN trial_manager.violation_start # None ELSE sim.speed_exceeded

\* start time of the open violation interval
IntervalStart ==
    IF prog = "research" THEN trial_manager.violation_start ELSE sim.current_violation_start

\* durations of the closed violation intervals, oldest first
RECURSIVE Durations(_)
Durations(s) == IF s = <<>> THEN <<>> ELSE <<s[1][1]>> \o Durations(Tail(s))

ClosedDurations ==
    IF prog = "research" THEN Durations(trial_manager.violation_durations)
                         ELSE sim.violation_durations

\* this step takes a speed sample while the trial is Running
RunningSample == Running /\ Len(samples') = Len(samples) + 1

\* samples of s above the limit that are the first one or follow one at or below it
RECURSIVE RisingEdges(_, _, _)
RisingEdges(s, lim, prevAbove) ==
    IF s = <<>> THEN 0
    ELSE (IF s[1][1] > lim /\ ~prevAbove THEN 1 ELSE 0)
         + RisingEdges(Tail(s), lim, s[1][1] > lim)

---------------------------------------------------------------------------
(* Properties *)

\* C1: when end_trial is called while a violation interval is open, the interval
\* is closed with end time = end time of the trial and appended to the list.
C1_EndTrialClosesOpenInterval ==
    [][ ( /\ prog = "research" /\ pc = "end"
          /\ "K_SPACE" \in keys
          /\ trial_manager.trial_active
          /\ trial_manager.violation_start # None )
        => /\ trial_manager'.violation_start = None
           /\ Len(trial_manager'.violation_durations)
                 = Len(trial_manager.violation_durations) + 1
           /\ Last(trial_manager'.violation_durations)[1]
                 = trial_manager'.end_time - trial_manager.violation_start ]_vars

\* C2: in the Finished state no violation interval is open and the number of
\* closed intervals equals the violation count (so a run whose only sample is
\* above the limit finishes with count 1 and a non-empty list).
C2_FinishedRunIsClosed ==
    (prog = "research" /\ trial_manager.display_results)
    => /\ trial_manager.violation_start = None
       /\ Len(trial_manager.violation_durations) = trial_manager.violation_count

\* C3: during Running the violation count is the number of samples above the
\* limit that are the first of the run or follow a sample at or below the limit;
\* a sample above the limit after another one above it changes neither the count
\* nor the start of the open interval.
C3_CountIsRisingEdges ==
    /\ [](Running => ViolationCount = RisingEdges(samples, Limit, FALSE))
    /\ [][ ( /\ RunningSample
             /\ samples # <<>>
             /\ Last(samples)[1] > Limit
             /\ Last(samples')[1] > Limit )
           => /\ ViolationCount' = ViolationCount
              /\ IntervalStart' = IntervalStart ]_vars

\* C4: a sample at or below the limit that arrives while an interval is open
\* appends exactly one interval, of duration (time of the sample - time the
\* interval was opened) and with the speed of the sample, and leaves no interval
\* open; samples 50,50,30,30,60 at consecutive times give one closed interval of
\* duration 2 and an open interval started at the time of the last sample.
C4_ExampleRun ==
    /\ prog = "research"
    /\ Len(samples) = 5
    /\ <<samples[1][1], samples[2][1], samples[3][1], samples[4][1], samples[5][1]>>
          = <<50, 50, 30, 30, 60>>
    /\ \A i \in 1..4 : samples[i + 1][2] = samples[i][2] + 1

C4_ClosingSample ==
    /\ [](C4_ExampleRun => /\ ClosedDurations = <<2>>
                           /\ IntervalOpen
                           /\ IntervalStart = samples[5][2])
    /\ [][ ( /\ RunningSample
             /\ IntervalOpen
             /\ Last(samples')[1] <= Limit )
           => /\ ClosedDurations' = Append(ClosedDurations,
                                           Last(samples')[2] - IntervalStart)
              /\ ~IntervalOpen'
              /\ prog = "research"
                    => Last(trial_manager'.violation_durations)[2] = Last(samples')[1]
         ]_vars

C4_Witness ==
    /\ C4_ExampleRun
    /\ trial_manager.violation_durations = << <<2, 30>> >>
    /\ trial_manager.violation_start = samples[5][2]
    /\ trial_manager.violation_count = 2

\* C5: a sample at or below the limit (the limit itself included) that arrives
\* while no interval is open changes neither the violation count, nor the
\* interval list, nor the open-interval marker.
C5_NoOpSample ==
    /\ [][ ( /\ prog = "research" /\ pc = "track"
             /\ trial_manager.violation_start = None
             /\ trial_manager'.current_speed <= trial_manager.max_speed )
           => /\ trial_manager'.violation_count = trial_manager.violation_count
              /\ trial_manager'.violation_durations = trial_manager.violation_durations
              /\ trial_manager'.violation_start = None ]_vars
    /\ [][ ( /\ prog = "nsti"
             /\ RunningSample
             /\ ~sim.speed_exceeded
             /\ Last(samples')[1] <= max_speed_limit )
           => /\ sim'.speed_violation_count = sim.speed_violation_count
              /\ sim'.violation_durations = sim.violation_durations
              /\ ~sim'.speed_exceeded ]_vars
    /\ [](\A v \in SimSpeeds :
            (v <= max_speed_limit /\ ~sim.speed_exceeded)
            => LET s == display_speed(sim, v, now)
               IN  /\ s.speed_violation_count = sim.speed_violation_count
                   /\ s.violation_durations = sim.violation_durations
                   /\ ~s.speed_exceeded)

C5_Witness ==
    /\ prog = "research" /\ pc = "frame"
    /\ trial_manager.trial_active
    /\ samples # <<>>
    /\ Last(samples) = <<speed_limit, now>>
    /\ trial_manager.current_speed = speed_limit
    /\ trial_manager.violation_start = None
    /\ trial_manager.violation_count = 0
    /\ trial_manager.violation_durations = <<>>

\* C6: a speed sample taken while the trial is not Running changes none of the
\* violation count, the interval list, the open-interval marker, the maximum and
\* minimum speed, the sample sum and the sample count.
C6_SamplesOnlyWhileRunning ==
    [][ /\ ( prog = "research" /\ pc = "track" /\ ~trial_manager.trial_active )
           => /\ trial_manager'.violation_count = trial_manager.violation_count
              /\ trial_manager'.violation_durations = trial_manager.violation_durations
              /\ trial_manager'.violation_start = trial_manager.violation_start
              /\ trial_manager'.max_speed_during_run = trial_manager.max_speed_during_run
              /\ trial_manager'.min_speed_during_run = trial_manager.min_speed_during_run
        /\ ( prog = "nsti" /\ pc = "speed" /\ pc' = "quit" /\ ~sim.trial_running )
           => /\ sim'.speed_violation_count = sim.speed_violation_count
              /\ sim'.violation_durations = sim.violation_durations
              /\ sim'.speed_exceeded = sim.speed_exceeded
              /\ sim'.max_speed = sim.max_speed
              /\ sim'.speed_sum = sim.speed_sum
              /\ sim'.speed_sample_count = sim.speed_sample_count ]_vars

\* C7: on entering Running all aggregates are at their identity, no violation
\* interval is open and the start time is the time of entry.
C7_RunningStartsClean ==
    [][ /\ ( prog = "research" /\ ~trial_manager.trial_active /\ trial_manager'.trial_active )
           => /\ trial_manager'.max_speed_during_run = 0
              /\ trial_manager'.min_speed_during_run = Inf
              /\ trial_manager'.violation_durations = <<>>
              /\ trial_manager'.violation_count = 0
              /\ trial_manager'.violation_start = None
              /\ trial_manager'.start_time = now'
        /\ ( prog = "nsti" /\ EntersRunning(sim, sim') )
           => /\ sim'.speed_sum = 0
              /\ sim'.speed_sample_count = 0
              /\ sim'.max_speed = 0
              /\ sim'.violation_durations = <<>>
              /\ sim'.speed_violation_count = 0
              /\ sim'.trial_timer_start = now'
              /\ ~sim'.speed_exceeded ]_vars

\* this step of game_loop calls trial_manager.start_trial
StartTrialCalled ==
    /\ prog = "research"
    /\ \/ pc = "kp1" /\ "K_KP1" \in keys
       \/ pc = "restart" /\ "K_RETURN" \in keys /\ trial_manager.display_results

\* C8: start_trial is accepted in every trial state and leaves the trial in
\* Staged and in no other state: start screen set, trial not active, results of
\* the previous run no longer presented.
C8_StartTrialStages ==
    [][ StartTrialCalled
        => /\ trial_manager'.start_screen
           /\ ~trial_manager'.trial_active
           /\ ~trial_manager'.display_results ]_vars

\* C9: a start_trial issued while the trial is Running computes no results: the
\* stored trial results and the results-displayed flag stay as they were.
C9_AbortComputesNoResults ==
    [][ ( StartTrialCalled /\ trial_manager.trial_active )
        => /\ trial_manager'.trial_results = trial_manager.trial_results
           /\ trial_manager'.display_results = trial_manager.display_results ]_vars

C9_Witness ==
    /\ prog = "research" /\ pc = "initiate" /\ "K_KP1" \in keys
    /\ samples # <<>> /\ Last(samples)[2] < now
    /\ trial_manager.start_time # None
    /\ trial_manager.start_screen
    /\ ~trial_manager.trial_active
    /\ ~trial_manager.display_results
    /\ trial_manager.trial_results # <<>>

\* the fields of CarlaSimulator an entry into Countdown or Running writes
SimRunFields(s) ==
    <<s.trial_countdown, s.countdown_start_time, s.trial_running, s.trial_timer_start,
      s.max_speed, s.speed_sum, s.speed_sample_count, s.violation_durations>>

\* C10: Running is entered only from Staged; a request to initiate the trial made
\* in any other state leaves the trial state, the start time and the aggregate
\* counters unchanged.
C10_RunningOnlyFromStaged ==
    [][ /\ ( prog = "research" /\ ~trial_manager.trial_active /\ trial_manager'.trial_active )
           => trial_manager.start_screen
        /\ ( prog = "research" /\ pc = "initiate" /\ ~trial_manager.start_screen )
           => trial_manager' = trial_manager
        /\ ( prog = "nsti" /\ ~sim.trial_countdown /\ sim'.trial_countdown )
           => sim.trial_run_active
        /\ ( prog = "nsti" /\ EntersRunning(sim, sim') )
           => sim.trial_countdown
        /\ ( prog = "nsti" /\ pc = "input" /\ pc' = "speed" /\ ~sim.trial_run_active )
           => SimRunFields(sim') = SimRunFields(sim) ]_vars

C10_Witness ==
    /\ prog = "research" /\ pc = "end" /\ "K_RETURN" \in keys
    /\ trial_manager.trial_active
    /\ trial_manager.start_time < now
    /\ samples # <<>>
    /\ trial_manager.violation_count = 1

\* C11: a request to end the trial made while the trial is not Running (Idle,
\* Staged or Finished) changes nothing: neither the trial state, nor the end
\* time, nor the results.
C11_EndOnlyFromRunning ==
    [][ ( /\ prog = "research" /\ pc = "end"
          /\ "K_SPACE" \in keys
          /\ ~trial_manager.trial_active )
        => trial_manager' = trial_manager ]_vars

\* the end request was made in Finished, after a run with samples
C11_Witness ==
    /\ prog = "research" /\ pc = "restart" /\ "K_SPACE" \in keys
    /\ ~trial_manager.trial_active
    /\ trial_manager.display_results
    /\ trial_manager.end_time # None /\ trial_manager.end_time < now
    /\ samples # <<>>

\* sum of the speeds of the samples s
RECURSIVE SampleSum(_)
SampleSum(s) == IF s = <<>> THEN 0 ELSE s[1][1] + SampleSum(Tail(s))

\* mean of the speeds of the samples of the current run, 0 when there is none
SampleMean == IF samples = <<>> THEN <<0, 1>> ELSE Div(SampleSum(samples), Len(samples))

\* C12: the average speed reported for a finished run is the sum of all speed
\* samples taken while Running divided by their number, whether or not a
\* violation occurred.
C12_AverageSpeedIsSampleMean ==
    /\ (prog = "research" /\ trial_manager.display_results)
          => trial_manager.trial_results.avg_speed = SampleMean
    /\ (prog = "nsti" /\ sim.trial_running)
          => sim_display_results(sim).average_speed = SampleMean

\* C13: ending a run in which no speed sample was taken yields an average speed
\* of 0, and no division by zero.
C13_NoSamplesAverageZero ==
    /\ [][ ( /\ prog = "research" /\ pc = "end"
             /\ "K_SPACE" \in keys
             /\ trial_manager.trial_active
             /\ samples = <<>> )
           => trial_manager'.trial_results.avg_speed = <<0, 1>> ]_vars
    /\ []( (prog = "nsti" /\ sim.speed_sample_count = 0)
             => sim_display_results(sim).average_speed = <<0, 1>> )

C13_Witness ==
    /\ prog = "research" /\ pc = "restart"
    /\ trial_manager.display_results
    /\ trial_manager.end_time = now
    /\ samples = <<>>
    /\ trial_manager.max_speed_during_run = 0
    /\ trial_manager.trial_results.avg_speed = <<0, 1>>

\* the fraction f is the arithmetic mean of the numbers of the non-empty list s
IsMeanOf(f, s) == f[2] > 0 /\ f[1] * Len(s) = f[2] * Sum(s)

\* the fraction f is the mean of the list s, or 0 when s is empty
IsMeanOrZero(f, s) == IF s = <<>> THEN f = <<0, 1>> ELSE IsMeanOf(f, s)

\* C14: the average violation duration of a finished run is the arithmetic mean
\* of the durations of all intervals in the violation list, and 0 when the list
\* is empty.
C14_AverageViolationDuration ==
    /\ (prog = "research" /\ trial_manager.display_results)
          => IsMeanOrZero(trial_manager.trial_results.avg_violation_duration,
                          Durations(trial_manager.violation_durations))
    /\ prog = "nsti"
          => IsMeanOrZero(sim_display_results(sim).average_violation_duration,
                          sim.violation_durations)

C14_Witness ==
    /\ prog = "research"
    /\ trial_manager.display_results
    /\ Durations(trial_manager.violation_durations) = <<2, 1>>
    /\ trial_manager.trial_results.avg_violation_duration = <<3, 2>>

\* C15: computing the results of a finished run again, after any number of
\* frames and speed samples and with no new trial initiated, gives the same
\* duration, average speed, average violation duration and violation count, and
\* the maximum and minimum speed of the run stay as they were.
C15_ResultsIdempotent ==
    /\ []( (prog = "research" /\ trial_manager.display_results)
             => calculate_results(trial_manager).trial_results
                   = trial_manager.trial_results )
    /\ [][ ( /\ prog = "research"
             /\ trial_manager.display_results /\ trial_manager'.display_results )
           => /\ trial_manager'.trial_results = trial_manager.trial_results
              /\ trial_manager'.violation_count = trial_manager.violation_count
              /\ trial_manager'.max_speed_during_run = trial_manager.max_speed_during_run
              /\ trial_manager'.min_speed_during_run = trial_manager.min_speed_during_run
         ]_vars

\* a finished run, two frames later, after a sample above its maximum speed
C15_Witness ==
    /\ prog = "research" /\ pc = "frame"
    /\ trial_manager.display_results
    /\ trial_manager.end_time # None /\ trial_manager.end_time + 1 < now
    /\ samples # <<>>
    /\ trial_manager.max_speed_during_run = 50
    /\ trial_manager.current_speed = 60
    /\ trial_manager.trial_results.violation_count = 1

\* largest speed of the samples s, 0 when there is none
RECURSIVE SampleMax(_)
SampleMax(s) == IF s = <<>> THEN 0 ELSE Max(s[1][1], SampleMax(Tail(s)))

\* smallest speed of the samples s, +infinity when there is none
RECURSIVE SampleMin(_)
SampleMin(s) == IF s = <<>> THEN Inf ELSE Min(s[1][1], SampleMin(Tail(s)))

\* C16: in Running the maximum speed is the largest and the minimum speed the
\* smallest sample of the current run, so every sample lies between them; with
\* no sample the maximum is 0 and the minimum +infinity.
C16_ExtremesOfSamples ==
    /\ (prog = "research" /\ trial_manager.trial_active)
          => /\ trial_manager.max_speed_during_run = SampleMax(samples)
             /\ trial_manager.min_speed_during_run = SampleMin(samples)
             /\ \A i \in 1..Len(samples) :
                   /\ trial_manager.min_speed_during_run <= samples[i][1]
                   /\ samples[i][1] <= trial_manager.max_speed_during_run
    /\ (prog = "nsti" /\ sim.trial_running)
          => /\ sim.max_speed = SampleMax(samples)
             /\ \A i \in 1..Len(samples) : samples[i][1] <= sim.max_speed

C16_Witness ==
    /\ prog = "research"
    /\ trial_manager.trial_active
    /\ Len(samples) = 3
    /\ <<samples[1][1], samples[2][1], samples[3][1]>> = <<45, 60, 30>>
    /\ trial_manager.max_speed_during_run = 60
    /\ trial_manager.min_speed_during_run = 30

\* the mode that follows mode m in the cycle
NextMode(m) ==
    IF m = "automatic" THEN "manual"
    ELSE IF m = "manual" THEN "automatic_shifter"
    ELSE "automatic"

\* the mode n cycle-mode commands after mode m
RECURSIVE ModeAfter(_, _)
ModeAfter(m, n) == IF n = 0 THEN m ELSE ModeAfter(NextMode(m), n - 1)

\* parse_events has just handled a non-empty list of events, all of them in E
Handled(E) ==
    /\ InGameLoop /\ pc = "frame"
    /\ events' # <<>>
    /\ \A i \in 1..Len(events') : events'[i] \in E

\* C17: the cycle-mode command takes Automatic to Manual, Manual to
\* AutomaticShifter and AutomaticShifter to Automatic, so that three of them in
\* a row return to the same mode; a cycle-mode command never changes the gear.
C17_ModeCycle ==
    /\ [][ Handled({KeyUp("K_m")})
           => /\ controller'.transmission_mode
                    = ModeAfter(controller.transmission_mode, Len(events'))
              /\ controller'.control.gear = controller.control.gear ]_vars
    /\ []( LET c3 == handle_key(handle_key(handle_key(controller, key_mapping, "K_m"),
                                           key_mapping, "K_m"),
                                key_mapping, "K_m")
           IN  /\ c3.transmission_mode = controller.transmission_mode
               /\ c3.control.gear = controller.control.gear )

\* back in Automatic by two cycle-mode commands, in the gear shifted to in Manual
C17_Witness ==
    /\ prog = "control" /\ pc = "kp1"
    /\ events = <<KeyUp("K_m"), KeyUp("K_m")>>
    /\ controller.transmission_mode = "automatic"
    /\ controller.control.gear = 3

\* C18: the gear is never below -1; in Manual each shift-down command lowers the
\* gear by 1 but not below -1 (from -1 it stays -1) and each shift-up command
\* raises it by exactly 1, whatever the gear.
C18_GearFloor ==
    /\ [](controller.control.gear >= -1)
    /\ [][ ( Handled({KeyUp("K_COMMA")}) /\ controller.transmission_mode = "manual" )
           => controller'.control.gear
                 = Max(-1, controller.control.gear - Len(events')) ]_vars
    /\ [][ ( Handled({KeyUp("K_PERIOD")}) /\ controller.transmission_mode = "manual" )
           => controller'.control.gear = controller.control.gear + Len(events') ]_vars
    /\ []( controller.transmission_mode = "manual"
           => /\ handle_key(controller, key_mapping, "K_PERIOD").control.gear
                    = controller.control.gear + 1
              /\ controller.control.gear = -1
                    => handle_key(controller, key_mapping, "K_COMMA").control.gear = -1 )

\* two shift-down commands in Manual have left the gear at the floor
C18_Witness ==
    /\ prog = "control" /\ pc = "kp1"
    /\ events = <<KeyUp("K_COMMA"), KeyUp("K_COMMA")>>
    /\ controller.transmission_mode = "manual"
    /\ controller.control.manual_gear_shift
    /\ controller.control.gear = -1
    /\ controller.control.reverse

\* C19: whenever the transmission mode is AutomaticShifter the gear is -1, 0 or
\* 1, however that mode was entered.
C19_ShifterGears ==
    controller.transmission_mode = "automatic_shifter"
    => controller.control.gear \in {-1, 0, 1}

\* the events that carry the reverse-toggle command
ToggleEvents ==
    {KeyUp("K_q"), KeyUp(PygameKey(key_mapping.reverse)), JoyButton(axis_mapping.reverse)}

\* C20: a shift-up or shift-down command issued in Automatic or AutomaticShifter
\* leaves the gear unchanged, and while the mode is Automatic the gear changes
\* only through the reverse-toggle command.
C20_ShiftOnlyInManual ==
    /\ [][ ( /\ Handled({KeyUp("K_COMMA"), KeyUp("K_PERIOD")})
             /\ controller.transmission_mode # "manual" )
           => controller'.control.gear = controller.control.gear ]_vars
    /\ [][ ( /\ Handled(ControlEvents \ (ToggleEvents \cup {KeyUp("K_m")}))
             /\ controller.transmission_mode = "automatic" )
           => controller'.control.gear = controller.control.gear ]_vars

\* two shift-up commands were issued in Automatic, in the gear set by the toggle
C20_Witness ==
    /\ prog = "control" /\ pc = "kp1"
    /\ events = <<KeyUp("K_PERIOD"), KeyUp("K_PERIOD")>>
    /\ controller.transmission_mode = "automatic"
    /\ ~controller.control.manual_gear_shift
    /\ controller.control.gear = 1
    /\ now > 2

\* the events that carry a shifter command
ShifterEvents ==
    { JoyButton(axis_mapping.shifter_drive), JoyButton(axis_mapping.shifter_neutral),
      JoyButton(axis_mapping.shifter_reverse) }

\* C21: in AutomaticShifter the drive command gives gear 1 without neutral mode,
\* the neutral command gear 0 with neutral mode and the reverse command gear -1
\* without neutral mode; in Automatic and in Manual the shifter commands change
\* neither the gear nor the neutral mode.
C21_ShifterCommands ==
    /\ [][ ( /\ Handled({JoyButton(axis_mapping.shifter_drive)})
             /\ controller.transmission_mode = "automatic_shifter" )
           => controller'.control.gear = 1 /\ ~controller'.neutral_mode ]_vars
    /\ [][ ( /\ Handled({JoyButton(axis_mapping.shifter_neutral)})
             /\ controller.transmission_mode = "automatic_shifter" )
           => controller'.control.gear = 0 /\ controller'.neutral_mode ]_vars
    /\ [][ ( /\ Handled({JoyButton(axis_mapping.shifter_reverse)})
             /\ controller.transmission_mode = "automatic_shifter" )
           => controller'.control.gear = -1 /\ ~controller'.neutral_mode ]_vars
    /\ [][ ( /\ Handled(ShifterEvents)
             /\ controller.transmission_mode # "automatic_shifter" )
           => /\ controller'.control.gear = controller.control.gear
              /\ controller'.neutral_mode = controller.neutral_mode ]_vars

\* the shifter went to reverse and then to neutral in one frame
C21_Witness ==
    /\ prog = "control" /\ pc = "kp1"
    /\ events = <<JoyButton(axis_mapping.shifter_reverse),
                  JoyButton(axis_mapping.shifter_neutral)>>
    /\ controller.transmission_mode = "automatic_shifter"
    /\ controller.control.gear = 0
    /\ controller.neutral_mode


\* the tick that has just run parse_events handed its control vector to
\* apply_control: it ran to its end with the autopilot off
TickApplied ==
    /\ prog \in {"drive", "config", "wheel"} /\ pc = "kp1"
    /\ ~controller.autopilot_enabled

\* C22: in every tick in which the neutral mode is set, the control vector
\* applied to the vehicle has throttle 0, whatever the throttle key and the
\* throttle axis of the wheel report
C22_NeutralForcesZeroThrottle ==
    (TickApplied /\ controller.neutral_mode) => applied.throttle = 0

\* a tick in neutral with the throttle key held and the pedal of the wheel
\* pressed, which applied throttle 0
C22_Witness ==
    /\ TickApplied /\ controller.neutral_mode
    /\ "K_UP" \in keys
    /\ joystick # None /\ jsInputs[axis_mapping.throttle] = -1000
    /\ applied = controller.control
    /\ applied.throttle = 0


\* C23: every control vector handed to apply_control has reverse set exactly
\* when its gear is negative.
C23_ReverseMatchesGear == applied.reverse = (applied.gear < 0)


\* the tick that has just run read the three axes of the wheel and wrote its
\* steer, throttle and brake to the control vector
WheelWrote ==
    /\ prog = "wheel" /\ TickApplied /\ joystick # None
    /\ axis_mapping.steering # None
    /\ axis_mapping.throttle # None
    /\ axis_mapping.brake # None

\* the range [-1, 1] of an axis and the range (0, 2] of a damping factor
AxisRange == -1000..1000
DampingRange == 1..2000

\* C24: for a steering axis value in [-1, 1] and a steering damping in (0, 2]
\* the steer written to the control vector lies in [-1, 1], and it is 0 for the
\* axis value 0.
C24_SteerInRange ==
    ( /\ WheelWrote
      /\ jsInputs[axis_mapping.steering] \in AxisRange
      /\ axis_mapping.steering_damping \in DampingRange )
    => /\ controller.control.steer \in -1000..1000
       /\ jsInputs[axis_mapping.steering] = 0 => controller.control.steer = 0

\* the gamepad of the time-trial client has just been read and its vector applied
PadWrote == prog = "pad" /\ pc = "speed" /\ jsInputs # <<>> /\ sim.vehicle = sim.control

\* C25: for pedal axis values in [-1, 1] and a damping in (0, 2] the throttle
\* and the brake written to the control vector lie in [0, 1], in the research
\* client and in the time-trial client.
C25_PedalsInRange ==
    /\ ( /\ WheelWrote
         /\ jsInputs[axis_mapping.throttle] \in AxisRange
         /\ jsInputs[axis_mapping.brake] \in AxisRange
         /\ axis_mapping.throttle_damping \in DampingRange
         /\ axis_mapping.brake_damping \in DampingRange )
       => /\ controller.control.throttle \in 0..1000
          /\ controller.control.brake \in 0..1000
    /\ PadWrote => /\ sim.control.throttle \in 0..1000
                   /\ sim.control.brake \in 0..1000

\* the throttle pedal fully pressed with damping 2, where the curve gives more
\* than 1, and the brake pedal released, where it gives less than 0
C25_Witness ==
    /\ WheelWrote
    /\ axis_mapping.throttle_damping = 2000
    /\ jsInputs[axis_mapping.throttle] = -1000
    /\ jsInputs[axis_mapping.brake] = 1000
    /\ PedalCurve(-1000, 2000) > 1000 /\ PedalCurve(1000, 2000) < 0
    /\ controller.control.throttle = 1000
    /\ controller.control.brake = 0

\* C26: the pedal curve does not fail on an axis value out of range: no tick
\* ends with the domain error of the logarithm.
C26_PedalCurveNeverFails == controller.raised # "ValueError"

\* C28: an axis index that is not below the number of axes of the device
\* raises no error in the computation of the controls of a tick.
C28_MissingAxisRaisesNothing ==
    controller.raised # "IndexError" /\ sim.raised # "pygame.error"

\* C29: each of steer, throttle and brake whose axis is bound is taken from
\* the wheel, whether or not the axes of the other two are bound.
C29_ControlsResolvedIndependently ==
    ( /\ prog = "wheel" /\ TickApplied /\ joystick # None
      /\ ~controller.neutral_mode )
    => /\ ( axis_mapping.steering # None /\ axis_mapping.steering < joystick )
          => controller.control.steer =
                SteerCurve(jsInputs[axis_mapping.steering], axis_mapping.steering_damping)
       /\ ( /\ axis_mapping.throttle # None /\ axis_mapping.throttle < joystick
            /\ PedalLogArg(jsInputs[axis_mapping.throttle]) > 0 )
          => controller.control.throttle =
                Clamp01(PedalCurve(jsInputs[axis_mapping.throttle],
                                   axis_mapping.throttle_damping))
       /\ ( /\ axis_mapping.brake # None /\ axis_mapping.brake < joystick
            /\ PedalLogArg(jsInputs[axis_mapping.brake]) > 0 )
          => controller.control.brake =
                Clamp01(PedalCurve(jsInputs[axis_mapping.brake],
                                   axis_mapping.brake_damping))


\* C27: with a configuration without key bindings or without shifter bindings
\* every key-up event and every joystick-button event is handled without an
\* error: no handler ends with the KeyError of a missing entry.
C27_MissingBindingsRaiseNothing == controller.raised # "KeyError"


\* C30: while the trial run is in Countdown the control vector the vehicle
\* holds, the last one applied, has throttle, steer and brake 0, whatever the
\* keys and the gamepad report in that time.
C30_CountdownLocksControls ==
    sim.trial_countdown
    => sim.vehicle.throttle = 0 /\ sim.vehicle.steer = 0 /\ sim.vehicle.brake = 0

\* a key event with the throttle key held arrived during the countdown and
\* left the vehicle with throttle 0
C30_Witness ==
    /\ prog = "pad" /\ pc = "speed"
    /\ sim.trial_countdown /\ now > sim.countdown_start_time
    /\ "K_w" \in keys
    /\ sim.vehicle.throttle = 0 /\ sim.vehicle.steer = 0 /\ sim.vehicle.brake = 0


\* C31: the trial does not enter Running before countdown_duration seconds
\* have passed since start_countdown set countdown_start_time.
C31_CountdownLastsItsDuration ==
    [][ ( InRun /\ EntersRunning(sim, sim') )
        => now' - sim.countdown_start_time >= countdown_duration * TimeUnit ]_vars

\* C32: the camera callback changes none of the trial and violation state of
\* the time-trial client: the flags of the trial, the violation count and
\* intervals, the speed sum and count and the maximum speed.
C32_CallbackLeavesTrialState ==
    [][ ( InRun /\ images' = images + 1 )
        => /\ SimRunFields(sim') = SimRunFields(sim)
           /\ sim'.trial_run_active = sim.trial_run_active
           /\ sim'.results_displayed = sim.results_displayed
           /\ sim'.speed_violation_count = sim.speed_violation_count
           /\ sim'.speed_exceeded = sim.speed_exceeded ]_vars


\* the keys keyboard_control tests that change the state of the model
HandledKeys == {"K_w", "K_s", "K_a", "K_d", "K_SPACE", "K_q", "K_1", "K_ESCAPE"}

\* C34: in Running there is an input the handlers of the time-trial client
\* take, a set of keys or a state of the gamepad, that ends the trial and shows
\* its results.
C34_RunningCanBeStopped ==
    ( InRun /\ sim.trial_running )
    => \/ \E ks \in SUBSET HandledKeys :
             LET s == keyboard_control(sim, ks, now)
             IN  ~s.trial_running /\ s.results_displayed
       \/ /\ joystick # None /\ \A i \in PadAxes : i < joystick
          /\ \E js \in PadInputs, buttons \in SUBSET {0, 1, 2, 3} :
                LET s == gamepad_control(sim, joystick, js, buttons)
                IN  ~s.trial_running /\ s.results_displayed

\* no state of the time-trial client shows the results of a trial
ResultsNeverShown == InRun => ~sim.results_displayed


\* C38: in every state of TrialManager violation_count is the number of
\* entries of violation_durations, plus one exactly when a violation is open;
\* violation_start, the one slot of the open violation, holds none or its start.
C38_CountMatchesIntervals ==
    prog = "research"
    => /\ trial_manager.violation_count
             = Len(trial_manager.violation_durations)
               + (IF trial_manager.violation_start # None THEN 1 ELSE 0)
       /\ trial_manager.violation_start \in {None} \cup 0..now

\* a second violation is open after a first one was closed
C38_Witness ==
    /\ prog = "research" /\ trial_manager.trial_active
    /\ Len(trial_manager.violation_durations) = 1
    /\ trial_manager.violation_start # None
    /\ trial_manager.violation_count = 2


\* C36: in every state of the transmission the neutral mode implies that the
\* mode is AutomaticShifter and that the gear is 0.
C36_NeutralMeansShifterGearZero ==
    ( InGameLoop /\ controller.neutral_mode )
    => /\ controller.transmission_mode = "automatic_shifter"
       /\ controller.control.gear = 0

\* C37: in every state the manual-gear-shift flag of the control vector is set
\* exactly in Manual and the shifter-mode flag exactly in AutomaticShifter.
C37_FlagsFollowMode ==
    InGameLoop
    => /\ controller.control.manual_gear_shift <=> controller.transmission_mode = "manual"
       /\ controller.shifter_mode <=> controller.transmission_mode = "automatic_shifter"

\* the mode went through Manual and AutomaticShifter back to Automatic, and
\* both flags are clear again
C37_Witness ==
    /\ prog = "control" /\ pc = "kp1"
    /\ events = <<KeyUp("K_m"), KeyUp("K_m")>>
    /\ controller.transmission_mode = "automatic"
    /\ ~controller.control.manual_gear_shift /\ ~controller.shifter_mode


\* the driving direction after a reverse-toggle command in gear g
Flip(g) == IF g < 0 THEN 1 ELSE -1

\* the gear after n reverse-toggle commands in gear g
RECURSIVE FlipN(_, _)
FlipN(g, n) == IF n = 0 THEN g ELSE FlipN(Flip(g), n - 1)

\* C35: every reverse-toggle command flips the driving direction, from a
\* negative gear to gear 1 and from any other gear to gear -1, also when
\* several of them are handled in one tick.
C35_ToggleFlipsDirection ==
    [][ Handled(ToggleEvents)
        => controller'.control.gear = FlipN(controller.control.gear, Len(events')) ]_vars


\* a QUIT event waits in the queue of pygame
QuitPending == \E i \in 1..Len(events) : events[i].type = "QUIT"

\* C39: in the time-trial client a posted QUIT event ends run(): the step that
\* takes the QUIT event from the queue of pygame, at whatever point of the
\* iteration it was posted, is the return of run().
C39_QuitEndsRun ==
    [][ ( InRun /\ QuitPending /\ ~QuitPending' ) => pc' = "done" ]_vars


\* C40: after any number of collision events the collision history holds at
\* most 4000 entries, which are the most recent events in the order of their
\* arrival (the oldest is dropped first), and the surface of the camera is the
\* image delivered last.
C40_SensorDataBounded ==
    InSensors =>
        LET history == sensors.history
            n       == sensors.collisions
        IN  /\ Len(history) <= 4000
            /\ Len(history) = IF n < 4000 THEN n ELSE 4000
            /\ \A i \in 1..Len(history) : history[i][1] = n - Len(history) + i
            /\ sensors.surface = IF sensors.delivered = 0 THEN None
                                                           ELSE sensors.delivered

\* the 4001st collision has dropped the first entry and the second image has
\* replaced the first
C40_Witness ==
    /\ InSensors
    /\ sensors.collisions = 4001
    /\ Len(sensors.history) = 4000
    /\ sensors.history[1][1] = 2
    /\ sensors.delivered = 2
    /\ sensors.surface = 2


\* the countdown runs and the clock of the model reaches its expiry
CountdownStarted ==
    /\ InRun /\ sim.trial_countdown
    /\ sim.countdown_start_time + countdown_duration * TimeUnit <= MaxTimeSim

\* C33: a countdown that has been started ends in Running, whatever the user
\* does or does not do in the meantime, unless run() returns first.
C33_CountdownLeadsToRunning ==
    CountdownStarted ~> (sim.trial_running \/ pc = "done")

====
